---- MODULE Spec2Model ----
(***************************************************************************)
(* A model of server.js of nandang-dev/whatsapp-api: the module-level      *)
(* session state (client, clientReady, qrCodeData), the lifecycle-event    *)
(* handlers registered by initializeWhatsApp, the recipient resolver       *)
(* (parseChatTarget / resolveChatId) and the HTTP handlers of /,           *)
(* /api/qrcode, /api/status, /api/send-message, /api/send-batch-message,   *)
(* /api/logout and /api/clear-session.                                     *)
(*                                                                         *)
(* One action is one run of JavaScript between two awaits: a handler runs  *)
(* from its entry (or from the completion of the call it awaited) to the   *)
(* next call it awaits, and nothing interleaves inside that run.           *)
(***************************************************************************)
EXTENDS Integers, Sequences, FiniteSets, TLC

VARIABLES
    client,       \* server.js:21  id of the Client object held by `client`
    clientReady,  \* server.js:22
    qrCodeData,   \* server.js:20  NULL, or the id of the client whose code it encodes
    lib,          \* the underlying whatsapp-web.js clients: id -> connection state
    pendingQr,    \* clients with a qrcode.toDataURL(qr) promise still pending
    timers,       \* scheduled setTimeout(initializeWhatsApp, 2000) not yet fired
    req,          \* in-flight /api/send-message, /api/logout, /api/clear-session
    batch,        \* the /api/send-batch-message request
    call,         \* a resolveChatId(input) call taken on its own
    got,          \* the answer to the latest GET request
    sessionDir    \* server.js:668  the directory ./.wwebjs_auth exists

vars == <<client, clientReady, qrCodeData, lib, pendingQr, timers, req, batch,
          call, got, sessionDir>>

(***************************************************************************)
(* Bounds of the model.                                                    *)
(***************************************************************************)
MaxClients == 3
MaxTimers == 2
MaxRecipients == 3
MaxSendResets == 1

NULL == 0
Clients == 1..MaxClients
SendSlots == {1}
ResetSlots == {2}
Slots == SendSlots \cup ResetSlots

(***************************************************************************)
(* JavaScript values. A value is [t, s]: its type tag and, for a string,   *)
(* its characters (a sequence of one-character strings).                   *)
(***************************************************************************)
Str(chars) == [t |-> "string", s |-> chars]
Undef == [t |-> "undefined", s |-> <<>>]
Num == [t |-> "number", s |-> <<>>]       \* a non-zero number

\* typeof v
TypeOf(v) == IF v.t = "null" THEN "object" ELSE v.t

\* ToBoolean(v), as used by !v, v && w, v || w
Truthy(v) ==
    CASE v.t = "string" -> v.s # <<>>
      [] v.t = "number" -> TRUE
      [] v.t = "object" -> TRUE
      [] OTHER -> FALSE

Digits == {"0", "1", "2", "3", "4", "5", "6", "7", "8", "9"}
Whitespace == {" "}

RECURSIVE FilterDigits(_)
FilterDigits(chars) ==
    IF chars = <<>> THEN <<>>
    ELSE IF Head(chars) \in Digits
         THEN <<Head(chars)>> \o FilterDigits(Tail(chars))
         ELSE FilterDigits(Tail(chars))

RECURSIVE TrimStart(_)
TrimStart(chars) ==
    IF chars # <<>> /\ Head(chars) \in Whitespace THEN TrimStart(Tail(chars)) ELSE chars

RECURSIVE TrimEnd(_)
TrimEnd(chars) ==
    IF chars # <<>> /\ chars[Len(chars)] \in Whitespace
    THEN TrimEnd(SubSeq(chars, 1, Len(chars) - 1))
    ELSE chars

\* String.prototype.trim
Trim(chars) == TrimEnd(TrimStart(chars))

\* String.prototype.includes, for a one-character needle
Includes(chars, c) == \E k \in 1..Len(chars) : chars[k] = c

\* String.prototype.endsWith
EndsWith(chars, suffix) ==
    /\ Len(chars) >= Len(suffix)
    /\ SubSeq(chars, Len(chars) - Len(suffix) + 1, Len(chars)) = suffix

\* String.prototype.replace(pattern, '') with a string pattern: the first
\* occurrence only.
RemoveFirst(chars, pat) ==
    LET hits == {k \in 1..(Len(chars) - Len(pat) + 1) :
                    SubSeq(chars, k, k + Len(pat) - 1) = pat}
    IN  IF hits = {} THEN chars
        ELSE LET k == CHOOSE x \in hits : \A y \in hits : x <= y
             IN  SubSeq(chars, 1, k - 1) \o SubSeq(chars, k + Len(pat), Len(chars))

DirectSuffix == <<"@", "c", ".", "u", "s">>

(***************************************************************************)
(* The recipient resolver.                                                 *)
(***************************************************************************)
NoError == <<>>
NoTarget == [error |-> NoError, chatId |-> <<>>, normalizedNumber |-> <<>>,
             isDirectUser |-> FALSE]
Failed(text) == [NoTarget EXCEPT !.error = text]

\* replace(/\D/, '') without the g flag: only the first non-digit goes.
RECURSIVE RemoveFirstNonDigit(_)
RemoveFirstNonDigit(chars) ==
    IF chars = <<>> THEN <<>>
    ELSE IF Head(chars) \in Digits
         THEN <<Head(chars)>> \o RemoveFirstNonDigit(Tail(chars))
         ELSE Tail(chars)
normalizePhoneNumberFirstOnly(v) ==
    IF v.t # "string" THEN <<>> ELSE RemoveFirstNonDigit(v.s)

\* server.js:24-27
normalizePhoneNumber(v) == IF v.t # "string" THEN <<>> ELSE FilterDigits(v.s)

\* server.js:29-53
parseChatTarget(input) ==
    IF TypeOf(input) # "string" THEN Failed(<<"Nomor tujuan harus berupa string">>)
    ELSE LET raw == Trim(input.s) IN
         IF raw = <<>> THEN Failed(<<"Nomor tujuan tidak boleh kosong">>)
         ELSE IF Includes(raw, "@")
              THEN [error |-> NoError, chatId |-> raw, normalizedNumber |-> raw,
                    isDirectUser |-> EndsWith(raw, DirectSuffix)]
              ELSE LET normalizedNumber == normalizePhoneNumber(Str(raw)) IN
                   IF normalizedNumber = <<>> THEN Failed(<<"Format nomor tidak valid">>)
                   ELSE [error |-> NoError,
                         chatId |-> normalizedNumber \o DirectSuffix,
                         normalizedNumber |-> normalizedNumber,
                         isDirectUser |-> TRUE]

\* A resolver that takes every input with an '@' as final, '@c.us' included.
resolveChatIdStartAtIsFinal(input) ==
    LET parsed == parseChatTarget(input) IN
    IF parsed.error # NoError THEN [lookup |-> FALSE, target |-> parsed]
    ELSE IF Includes(parsed.normalizedNumber, "@") THEN [lookup |-> FALSE, target |-> parsed]
    ELSE [lookup |-> TRUE,
          target |-> [NoTarget EXCEPT !.normalizedNumber = parsed.normalizedNumber]]

\* server.js:55-65: resolveChatId up to its await. lookup = TRUE when
\* client.getNumberId(target.normalizedNumber) is called; otherwise target is
\* what resolveChatId returns.
resolveChatIdStart(input) ==
    LET parsed == parseChatTarget(input) IN
    IF parsed.error # NoError THEN [lookup |-> FALSE, target |-> parsed]
    ELSE IF ~parsed.isDirectUser THEN [lookup |-> FALSE, target |-> parsed]
    ELSE LET normalizedNumber ==
                 normalizePhoneNumber(Str(RemoveFirst(parsed.normalizedNumber, DirectSuffix)))
         IN  IF normalizedNumber = <<>>
             THEN [lookup |-> FALSE, target |-> Failed(<<"Format nomor tidak valid">>)]
             ELSE [lookup |-> TRUE,
                   target |-> [NoTarget EXCEPT !.normalizedNumber = normalizedNumber]]

\* What client.getNumberId can do: return an identifier, return nothing, throw.
LookupOutcomes == {"id", "none", "throw"}

NotRegistered(normalizedNumber) ==
    <<"Nomor ">> \o normalizedNumber \o <<" tidak terdaftar di WhatsApp">>

\* A resolver that rejects the target when the lookup throws.
resolveChatIdFinishFailClosed(normalizedNumber, outcome) ==
    CASE outcome = "id" ->
            [NoTarget EXCEPT !.chatId = normalizedNumber \o DirectSuffix,
                             !.normalizedNumber = normalizedNumber]
      [] outcome = "none" -> Failed(NotRegistered(normalizedNumber))
      [] OTHER -> Failed(<<"lookup failed">>)

\* A resolver that guesses the identifier of a number that is not registered.
resolveChatIdFinishGuessId(normalizedNumber, outcome) ==
    [NoTarget EXCEPT !.chatId = normalizedNumber \o DirectSuffix,
                     !.normalizedNumber = normalizedNumber]

\* A resolver that reports a number as not registered and returns an
\* identifier for it all the same.
resolveChatIdFinishErrorWithId(normalizedNumber, outcome) ==
    IF outcome = "none"
    THEN [NoTarget EXCEPT !.error = NotRegistered(normalizedNumber),
                          !.chatId = normalizedNumber \o DirectSuffix]
    ELSE [NoTarget EXCEPT !.chatId = normalizedNumber \o DirectSuffix,
                          !.normalizedNumber = normalizedNumber]

\* server.js:67-86: resolveChatId after client.getNumberId(normalizedNumber)
\* settled with `outcome`.
resolveChatIdFinish(normalizedNumber, outcome) ==
    CASE outcome = "id" ->
            [NoTarget EXCEPT !.chatId = normalizedNumber \o DirectSuffix,
                             !.normalizedNumber = normalizedNumber]
      [] outcome = "none" ->
            Failed(NotRegistered(normalizedNumber))
      [] OTHER ->
            [NoTarget EXCEPT !.chatId = normalizedNumber \o DirectSuffix,
                             !.normalizedNumber = normalizedNumber]

(***************************************************************************)
(* The underlying clients. A client is live from `new Client` +            *)
(* initialize() until destroy() succeeds on it.                            *)
(***************************************************************************)
\* "closed": the connection ended (auth_failure, disconnected, logout) but the
\* client object and its browser have not been destroyed.
LibStates == {"none", "starting", "qr", "authenticated", "ready", "closed", "destroyed"}
Connected == {"starting", "qr", "authenticated", "ready"}
Live == LibStates \ {"none", "destroyed"}

\* What an awaited call of the underlying client can do.
CallOutcomes == {"ok", "throw"}

\* A call that needs the WhatsApp Web page succeeds only on a ready client.
CanSucceed(c) == c # NULL /\ lib[c] = "ready"

Unused == {c \in Clients : lib[c] = "none"}
NewClient == CHOOSE c \in Unused : \A d \in Unused : c <= d

(***************************************************************************)
(* Requests.                                                               *)
(***************************************************************************)
\* lookup and teardown are how the request's getNumberId and destroy calls
\* settled ("-" when not called, or not settled yet).
IdleReq == [kind |-> "none", pc |-> "idle", target |-> NoTarget, message |-> Undef,
            on |-> NULL, status |-> 0, arrivedReady |-> FALSE,
            lookups |-> 0, sends |-> 0, lookup |-> "-", teardown |-> "-"]

Free(r) == req[r].pc \in {"idle", "done"}

Respond(rq, code) == [rq EXCEPT !.pc = "done", !.status = code,
                                !.target = NoTarget, !.message = Undef, !.on = NULL]

\* Numbers and messages a caller may put in a request body.
SampleNumbers == {Undef, Num,
                  Str(<<"6", "2">>), Str(<<"+", "6", " ", "2">>), Str(<<"x">>),
                  Str(<<"g", "@", "g">>)}
SampleMessages == {Undef, Str(<<"h", "i">>)}

\* Values of a /api/send-batch-message body and the handler's locals.
StrItem(chars) == [t |-> "string", s |-> chars, number |-> Undef, message |-> Undef]
ObjItem(number, message) == [t |-> "object", s |-> <<>>, number |-> number,
                             message |-> message]
NullItem == [t |-> "null", s |-> <<>>, number |-> Undef, message |-> Undef]
NumItem == [t |-> "number", s |-> <<>>, number |-> Undef, message |-> Undef]
Simple(item) == [t |-> item.t, s |-> item.s]

\* The recipients property of the body: missing, a non-array, or an array.
NoRecipients == [t |-> "undefined", items |-> <<>>]
NotAnArray == [t |-> "string", items |-> <<>>]
Array(items) == [t |-> "array", items |-> items]

\* The delay property of the body: missing, or an integer.
NoDelay == [t |-> "undefined", n |-> 0]
Delay(n) == [t |-> "number", n |-> n]

\* What happened to the item finished last: its index, how getNumberId and
\* sendMessage settled for it ("-" when not called), the resolver's error.
NoLast == [item |-> 0, lookup |-> "-", send |-> "-", resolved |-> NoError]
IdleBatch == [pc |-> "idle", recipients |-> NoRecipients, message |-> Undef,
              delay |-> NoDelay, delayMs |-> 0, i |-> 0, results |-> <<>>,
              sentCount |-> 0, failedCount |-> 0,
              targetNumber |-> Undef, targetMessage |-> Undef, target |-> NoTarget,
              on |-> NULL, status |-> 0, arrivedReady |-> FALSE,
              total |-> 0, sent |-> 0, failed |-> 0,
              lookups |-> 0, sends |-> 0, lookup |-> "-", waits |-> {}, last |-> NoLast]

\* A resolveChatId call: its argument, the argument it passed to getNumberId,
\* how getNumberId settled and what the call returned.
IdleCall == [pc |-> "idle", input |-> Undef, number |-> <<>>, lookups |-> 0,
             outcome |-> "-", result |-> NoTarget]

\* The answer to a GET request: path, status code, the body's status
\* property, the pairing image it carries (NULL when none) and hasQrCode.
NoAnswer == [path |-> "-", status |-> 0, body |-> "-", qrCode |-> NULL,
             hasQrCode |-> FALSE]

(***************************************************************************)
(* initializeWhatsApp and the lifecycle-event handlers it registers.       *)
(***************************************************************************)
\* server.js:115-187. LocalAuth creates its data directory when the client
\* initializes.
initializeWhatsApp ==
    /\ Unused # {}
    /\ client' = NewClient
    /\ lib' = [lib EXCEPT ![NewClient] = "starting"]
    /\ sessionDir' = TRUE

\* server.js:19-22 and server.js:190
Init ==
    /\ client = 1
    /\ lib = [c \in Clients |-> IF c = 1 THEN "starting" ELSE "none"]
    /\ clientReady = FALSE
    /\ qrCodeData = NULL
    /\ pendingQr = {}
    /\ timers = 0
    /\ req = [r \in Slots |-> IdleReq]
    /\ batch = IdleBatch
    /\ call = IdleCall
    /\ got = NoAnswer
    /\ sessionDir = TRUE

\* server.js:140-144: client c emits 'qr'; the handler awaits qrcode.toDataURL(qr).
\* One encoding per client is pending at a time.
OnQr(c) ==
    /\ lib[c] \in {"starting", "qr"}
    /\ c \notin pendingQr
    /\ lib' = [lib EXCEPT ![c] = "qr"]
    /\ pendingQr' = pendingQr \cup {c}
    /\ UNCHANGED <<client, clientReady, qrCodeData, timers, req, batch,
                   call, got, sessionDir>>

\* A 'qr' handler whose catch only logs: a failed encoding leaves the
\* previous image in place.
QrEncodedKeepsStale(c, ok) ==
    /\ c \in pendingQr
    /\ pendingQr' = pendingQr \ {c}
    /\ qrCodeData' = IF ok THEN c ELSE qrCodeData
    /\ UNCHANGED <<client, clientReady, lib, timers, req, batch, call, got, sessionDir>>

\* server.js:144-149: toDataURL settles; the handler stores the image, or null
QrEncoded(c, ok) ==
    /\ c \in pendingQr
    /\ pendingQr' = pendingQr \ {c}
    /\ qrCodeData' = IF ok THEN c ELSE NULL
    /\ UNCHANGED <<client, clientReady, lib, timers, req, batch, call, got, sessionDir>>

\* server.js:160-162
OnAuthenticated(c) ==
    /\ lib[c] \in {"starting", "qr"}
    /\ lib' = [lib EXCEPT ![c] = "authenticated"]
    /\ UNCHANGED <<client, clientReady, qrCodeData, pendingQr, timers, req, batch,
                   call, got, sessionDir>>

\* server.js:153-157
OnReady(c) ==
    /\ lib[c] = "authenticated"
    /\ lib' = [lib EXCEPT ![c] = "ready"]
    /\ clientReady' = TRUE
    /\ qrCodeData' = NULL
    /\ UNCHANGED <<client, pendingQr, timers, req, batch, call, got, sessionDir>>

\* server.js:165-169
OnAuthFailure(c) ==
    /\ lib[c] \in {"starting", "qr", "authenticated"}
    /\ lib' = [lib EXCEPT ![c] = "closed"]
    /\ clientReady' = FALSE
    /\ qrCodeData' = NULL
    /\ UNCHANGED <<client, pendingQr, timers, req, batch, call, got, sessionDir>>

\* server.js:172-176
OnDisconnected(c) ==
    /\ lib[c] \in {"qr", "authenticated", "ready"}
    /\ lib' = [lib EXCEPT ![c] = "closed"]
    /\ clientReady' = FALSE
    /\ qrCodeData' = NULL
    /\ UNCHANGED <<client, pendingQr, timers, req, batch, call, got, sessionDir>>

\* server.js:613-615 and 675-677: a scheduled re-initialization fires
TimerFire ==
    /\ timers > 0
    /\ timers' = timers - 1
    /\ initializeWhatsApp
    /\ UNCHANGED <<clientReady, qrCodeData, pendingQr, req, batch, call, got>>

(***************************************************************************)
(* POST /api/send-message                                                  *)
(***************************************************************************)
\* server.js:352-370: the handler past its readiness check, up to its first
\* await (or to its response). current is `client` as the handler reads it.
sendMessageBody(arrived, current, number, message) ==
    IF ~Truthy(number) \/ ~Truthy(message) THEN Respond(arrived, 400)
    ELSE LET started == resolveChatIdStart(number) IN
         IF started.lookup
         THEN [arrived EXCEPT !.pc = "lookup", !.target = started.target,
                              !.message = message, !.on = current, !.lookups = 1]
         ELSE IF started.target.error # NoError THEN Respond(arrived, 400)
         ELSE [arrived EXCEPT !.pc = "sending", !.target = started.target,
                              !.message = message, !.on = current, !.sends = 1]

\* A handler that tests `client` where it should test clientReady.
sendMessageEntryClientCheck(ready, current, number, message) ==
    LET arrived == [IdleReq EXCEPT !.kind = "send", !.arrivedReady = ready] IN
    IF current = NULL THEN Respond(arrived, 400)
    ELSE sendMessageBody(arrived, current, number, message)

\* server.js:344-370: the handler from its entry. ready is clientReady as the
\* handler reads it.
sendMessageEntry(ready, current, number, message) ==
    LET arrived == [IdleReq EXCEPT !.kind = "send", !.arrivedReady = ready] IN
    IF ~ready THEN Respond(arrived, 400)
    ELSE sendMessageBody(arrived, current, number, message)

SendMessage(r, number, message) ==
    /\ Free(r)
    /\ req' = [req EXCEPT ![r] = sendMessageEntry(clientReady, client, number, message)]
    /\ UNCHANGED <<client, clientReady, qrCodeData, lib, pendingQr, timers, batch,
                   call, got, sessionDir>>

\* server.js:362-370: getNumberId settled; resolveChatId returns and the
\* handler either answers 400 or calls client.sendMessage
sendMessageResolved(rq, current, outcome) ==
    LET target == resolveChatIdFinish(rq.target.normalizedNumber, outcome) IN
    IF target.error # NoError THEN Respond([rq EXCEPT !.lookup = outcome], 400)
    ELSE [rq EXCEPT !.pc = "sending", !.target = target, !.on = current,
                    !.sends = rq.sends + 1, !.lookup = outcome]

SendMessageLookupDone(r, outcome) ==
    /\ req[r].kind = "send" /\ req[r].pc = "lookup"
    /\ outcome = "throw" \/ CanSucceed(req[r].on)
    /\ req' = [req EXCEPT ![r] = sendMessageResolved(req[r], client, outcome)]
    /\ UNCHANGED <<client, clientReady, qrCodeData, lib, pendingQr, timers, batch,
                   call, got, sessionDir>>

\* A handler that takes a failed send as the loss of the connection.
SendMessageDoneMarksNotReady(r, outcome) ==
    /\ req[r].kind = "send" /\ req[r].pc = "sending"
    /\ outcome = "throw" \/ CanSucceed(req[r].on)
    /\ req' = [req EXCEPT ![r] = Respond(req[r], IF outcome = "ok" THEN 200 ELSE 500)]
    /\ clientReady' = (IF outcome = "ok" THEN clientReady ELSE FALSE)
    /\ UNCHANGED <<client, qrCodeData, lib, pendingQr, timers, batch,
                   call, got, sessionDir>>

\* server.js:370-385: client.sendMessage settled
SendMessageDone(r, outcome) ==
    /\ req[r].kind = "send" /\ req[r].pc = "sending"
    /\ outcome = "throw" \/ CanSucceed(req[r].on)
    /\ req' = [req EXCEPT ![r] = Respond(req[r], IF outcome = "ok" THEN 200 ELSE 500)]
    /\ UNCHANGED <<client, clientReady, qrCodeData, lib, pendingQr, timers, batch,
                   call, got, sessionDir>>

(***************************************************************************)
(* POST /api/logout and POST /api/clear-session                            *)
(***************************************************************************)
Resetting == {r \in Slots : req[r].kind \in {"logout", "clear"} /\ req[r].pc # "done"}
\* Keeps `timers` within MaxTimers: a reset request is taken only when the
\* timer it may schedule still fits.
RoomForReset == timers + Cardinality(Resetting) < MaxTimers

\* server.js:604-607
Logout(r) ==
    /\ Free(r) /\ RoomForReset
    /\ req' = [req EXCEPT ![r] =
                 IF client # NULL
                 THEN [IdleReq EXCEPT !.kind = "logout", !.pc = "logout", !.on = client]
                 ELSE Respond([IdleReq EXCEPT !.kind = "logout"], 200)]
    /\ UNCHANGED <<client, clientReady, qrCodeData, lib, pendingQr, timers, batch,
                   call, got, sessionDir>>

\* server.js:607-608 and 622-628: client.logout() settled
LogoutReturned(r, outcome) ==
    /\ req[r].kind = "logout" /\ req[r].pc = "logout"
    /\ outcome = "throw" \/ lib[req[r].on] \in Live
    /\ IF outcome = "ok"
       THEN /\ lib' = [lib EXCEPT ![req[r].on] = "closed"]
            /\ req' = [req EXCEPT ![r].pc = "destroy", ![r].on = client]
       ELSE /\ lib' = lib
            /\ req' = [req EXCEPT ![r] = Respond(req[r], 500)]
    /\ UNCHANGED <<client, clientReady, qrCodeData, pendingQr, timers, batch,
                   call, got, sessionDir>>

\* server.js:608-621 and 622-628: client.destroy() settled
LogoutDestroyed(r, outcome) ==
    /\ req[r].kind = "logout" /\ req[r].pc = "destroy"
    /\ IF outcome = "ok"
       THEN /\ lib' = [lib EXCEPT ![req[r].on] = "destroyed"]
            /\ clientReady' = FALSE
            /\ qrCodeData' = NULL
            /\ timers' = timers + 1
            /\ req' = [req EXCEPT ![r] = Respond([req[r] EXCEPT !.teardown = outcome], 200)]
       ELSE /\ req' = [req EXCEPT ![r] = Respond([req[r] EXCEPT !.teardown = outcome], 500)]
            /\ UNCHANGED <<lib, clientReady, qrCodeData, timers>>
    /\ UNCHANGED <<client, pendingQr, batch, call, got, sessionDir>>

\* server.js:653-658
ClearSession(r) ==
    /\ Free(r) /\ RoomForReset
    /\ req' = [req EXCEPT ![r] =
                 [IdleReq EXCEPT !.kind = "clear", !.pc = "destroy", !.on = client]]
    /\ UNCHANGED <<client, clientReady, qrCodeData, lib, pendingQr, timers, batch,
                   call, got, sessionDir>>

\* A clear-session without the inner try/catch: a destroy() that throws
\* reaches the handler's outer catch.
ClearSessionDestroyedNoSwallow(r, outcome) ==
    /\ req[r].kind = "clear" /\ req[r].pc = "destroy"
    /\ IF outcome = "ok"
       THEN /\ lib' = IF req[r].on # NULL THEN [lib EXCEPT ![req[r].on] = "destroyed"]
                      ELSE lib
            /\ clientReady' = FALSE
            /\ qrCodeData' = NULL
            /\ sessionDir' = FALSE
            /\ timers' = timers + 1
            /\ req' = [req EXCEPT ![r] = Respond([req[r] EXCEPT !.teardown = outcome], 200)]
       ELSE /\ req' = [req EXCEPT ![r] = Respond([req[r] EXCEPT !.teardown = outcome], 500)]
            /\ UNCHANGED <<lib, clientReady, qrCodeData, sessionDir, timers>>
    /\ UNCHANGED <<client, pendingQr, batch, call, got>>

\* server.js:658-682: client.destroy() settled; a throw is logged and
\* swallowed. fs.existsSync and fs.rmSync (force: true) do not fail.
ClearSessionDestroyed(r, outcome) ==
    /\ req[r].kind = "clear" /\ req[r].pc = "destroy"
    /\ lib' = IF outcome = "ok" /\ req[r].on # NULL
              THEN [lib EXCEPT ![req[r].on] = "destroyed"]
              ELSE lib
    /\ clientReady' = FALSE
    /\ qrCodeData' = NULL
    /\ sessionDir' = FALSE
    /\ timers' = timers + 1
    /\ req' = [req EXCEPT ![r] = Respond([req[r] EXCEPT !.teardown = outcome], 200)]
    /\ UNCHANGED <<client, pendingQr, batch, call, got>>

(***************************************************************************)
(* The session with its single-send and reset requests.                    *)
(***************************************************************************)
Lifecycle ==
    \E c \in Clients :
        \/ OnQr(c)
        \/ \E ok \in BOOLEAN : QrEncoded(c, ok)
        \/ OnAuthenticated(c)
        \/ OnReady(c)
        \/ OnAuthFailure(c)
        \/ OnDisconnected(c)

ResetRequests ==
    \E r \in ResetSlots :
        \/ Logout(r)
        \/ \E outcome \in CallOutcomes : LogoutReturned(r, outcome)
        \/ \E outcome \in CallOutcomes : LogoutDestroyed(r, outcome)
        \/ ClearSession(r)
        \/ \E outcome \in CallOutcomes : ClearSessionDestroyed(r, outcome)

Next ==
    \/ Lifecycle
    \/ TimerFire
    \/ ResetRequests

Spec == Init /\ [][Next]_vars

(***************************************************************************)
(* The session with single-send requests in flight. Resets are taken while *)
(* fewer than MaxSendResets re-initializations have been scheduled.        *)
(***************************************************************************)
ResetsTaken == Cardinality(Clients \ Unused) - 1 + timers + Cardinality(Resetting)

SendRequests ==
    \E r \in SendSlots :
        \/ \E number \in SampleNumbers, message \in SampleMessages :
              SendMessage(r, number, message)
        \/ \E outcome \in LookupOutcomes : SendMessageLookupDone(r, outcome)
        \/ \E outcome \in CallOutcomes : SendMessageDone(r, outcome)

SendNext ==
    \/ Lifecycle
    \/ TimerFire
    \/ SendRequests
    \/ \E r \in ResetSlots :
        \/ ResetsTaken < MaxSendResets /\ Logout(r)
        \/ \E outcome \in CallOutcomes : LogoutReturned(r, outcome)
        \/ \E outcome \in CallOutcomes : LogoutDestroyed(r, outcome)
        \/ ResetsTaken < MaxSendResets /\ ClearSession(r)
        \/ \E outcome \in CallOutcomes : ClearSessionDestroyed(r, outcome)

SpecSend == Init /\ [][SendNext]_vars

(***************************************************************************)
(* POST /api/send-batch-message                                            *)
(*                                                                         *)
(* A recipient entry is [t, s, number, message]: a string (its characters  *)
(* in s), an object (its number and message properties, undefined when     *)
(* missing), null, or a number. The loop index i runs from 1.              *)
(***************************************************************************)
Max(a, b) == IF a >= b THEN a ELSE b
Min(a, b) == IF a <= b THEN a ELSE b

\* server.js:473 and 493: `delay = 1000` when the property is undefined, then
\* Math.max(100, Math.min(delay || 1000, 10000))
delayMs(delay) ==
    LET given == IF delay.t = "undefined" THEN 1000 ELSE delay.n
        orDefault == IF given = 0 THEN 1000 ELSE given
    IN  Max(100, Min(orDefault, 10000))

\* server.js:516-521, 529-534, 542-547, 556-561: results.push({...}); item is
\* the loop index at the push.
Result(item, number, success, error) ==
    [item |-> item, number |-> number, success |-> success,
     messageId |-> IF success THEN "id" ELSE "null", error |-> error]

\* results.unshift in place of results.push
PushFront(results, entry) == <<entry>> \o results

\* results.push(entry)
Push(results, entry) == Append(results, entry)

\* server.js:516-523, 529-536 and 556-562: a failed result for item b.i
PushFailed(b, number, error, seen) ==
    [b EXCEPT !.results = Push(b.results, Result(b.i, number, FALSE, error)),
              !.failedCount = b.failedCount + 1,
              !.last = [seen EXCEPT !.item = b.i]]

\* server.js:542-548: a success result for item b.i
PushSent(b, seen) ==
    [b EXCEPT !.results = Push(b.results,
                               Result(b.i, Str(b.target.normalizedNumber), TRUE, NoError)),
              !.sentCount = b.sentCount + 1,
              !.last = [seen EXCEPT !.item = b.i]]

\* server.js:566-572
Respond200(b) ==
    [b EXCEPT !.pc = "done", !.status = 200, !.total = Len(b.recipients.items),
              !.sent = b.sentCount, !.failed = b.failedCount]

\* server.js:573-579, and the 400 answers of 467, 477 and 486
RespondError(b, code) == [b EXCEPT !.pc = "done", !.status = code]

\* server.js:517: recipient?.number || recipient || 'unknown'
InvalidNumber(recipient) ==
    IF recipient.t # "null" /\ Truthy(recipient.number) THEN recipient.number
    ELSE IF Truthy(Simple(recipient)) THEN Simple(recipient)
    ELSE Str(<<"u", "n", "k", "n", "o", "w", "n">>)

InvalidFormat == <<"Format recipient tidak valid">>
SendError == <<"send failed">>     \* error.message of a sendMessage that threw

\* server.js:501-564: the for loop from the head of iteration b.i up to the
\* next await (getNumberId or sendMessage called on `current`), or to the
\* response when the loop ends or the body throws.
RECURSIVE RunLoop(_, _)
RunLoop(b, current) ==
    IF b.i > Len(b.recipients.items) THEN Respond200(b)
    ELSE
    LET recipient == b.recipients.items[b.i]
        Continue(c) == RunLoop([c EXCEPT !.i = c.i + 1], current)
        Attempt(targetNumber, targetMessage) ==
            LET started == resolveChatIdStart(targetNumber)
                a == [b EXCEPT !.targetNumber = targetNumber,
                               !.targetMessage = targetMessage,
                               !.target = started.target, !.on = current,
                               !.lookup = "-"]
            IN  IF started.lookup
                THEN [a EXCEPT !.pc = "lookup", !.lookups = b.lookups + 1]
                ELSE IF started.target.error # NoError
                THEN Continue(PushFailed(b, targetNumber, started.target.error,
                                 [NoLast EXCEPT !.resolved = started.target.error]))
                ELSE [a EXCEPT !.pc = "sending", !.sends = b.sends + 1]
    IN  IF TypeOf(recipient) = "string"
        THEN Attempt(Simple(recipient), b.message)
        ELSE IF TypeOf(recipient) = "object"
        THEN IF recipient.t = "null"
             THEN RespondError(b, 500)     \* recipient.number throws a TypeError
             ELSE IF Truthy(recipient.number) /\ Truthy(recipient.message)
             THEN Attempt(recipient.number, recipient.message)
             ELSE Continue(PushFailed(b, InvalidNumber(recipient), InvalidFormat, NoLast))
        ELSE Continue(PushFailed(b, InvalidNumber(recipient), InvalidFormat, NoLast))

\* A handler that lets an all-string list through without a shared message.
batchEntryNoMessageCheck(ready, current, recipients, message, delay) ==
    LET arrived == [IdleBatch EXCEPT !.arrivedReady = ready, !.recipients = recipients,
                                     !.message = message, !.delay = delay]
    IN  IF ~ready THEN RespondError(arrived, 400)
        ELSE IF recipients.t # "array" \/ recipients.items = <<>>
        THEN RespondError(arrived, 400)
        ELSE RunLoop([arrived EXCEPT !.delayMs = delayMs(delay), !.i = 1], current)

\* server.js:465-501: the handler from its entry to the loop
batchEntry(ready, current, recipients, message, delay) ==
    LET arrived == [IdleBatch EXCEPT !.arrivedReady = ready, !.recipients = recipients,
                                     !.message = message, !.delay = delay]
        isStringArray == \A k \in 1..Len(recipients.items) :
                             TypeOf(recipients.items[k]) = "string"
    IN  IF ~ready THEN RespondError(arrived, 400)
        ELSE IF recipients.t # "array" \/ recipients.items = <<>>
        THEN RespondError(arrived, 400)
        ELSE IF isStringArray /\ ~Truthy(message) THEN RespondError(arrived, 400)
        ELSE RunLoop([arrived EXCEPT !.delayMs = delayMs(delay), !.i = 1], current)

BatchArrive(recipients, message, delay) ==
    /\ batch.pc = "idle"
    /\ batch' = batchEntry(clientReady, client, recipients, message, delay)
    /\ UNCHANGED <<client, clientReady, qrCodeData, lib, pendingQr, timers, req,
                   call, got, sessionDir>>

\* server.js:527-540: getNumberId settled for item b.i
batchResolved(b, current, outcome) ==
    LET target == resolveChatIdFinish(b.target.normalizedNumber, outcome) IN
    IF target.error # NoError
    THEN RunLoop([PushFailed(b, b.targetNumber, target.error,
                      [NoLast EXCEPT !.lookup = outcome, !.resolved = target.error])
                  EXCEPT !.i = b.i + 1], current)
    ELSE [b EXCEPT !.pc = "sending", !.target = target, !.on = current,
                   !.sends = b.sends + 1, !.lookup = outcome]

BatchLookupDone(outcome) ==
    /\ batch.pc = "lookup"
    /\ outcome = "throw" \/ CanSucceed(batch.on)
    /\ batch' = batchResolved(batch, client, outcome)
    /\ UNCHANGED <<client, clientReady, qrCodeData, lib, pendingQr, timers, req,
                   call, got, sessionDir>>

\* A dispatcher that pauses after every item but the last, sent or not.
batchSentAlwaysPause(b, current, outcome) ==
    LET seen == [NoLast EXCEPT !.lookup = b.lookup, !.send = outcome]
        pushed == IF outcome = "ok" THEN PushSent(b, seen)
                  ELSE PushFailed(b, b.targetNumber, SendError, seen)
    IN  IF b.i < Len(b.recipients.items)
        THEN [pushed EXCEPT !.pc = "delay", !.waits = b.waits \cup {b.i}]
        ELSE RunLoop([pushed EXCEPT !.i = b.i + 1], current)

\* A dispatcher without the per-item try/catch: a send that throws reaches the
\* handler's outer catch.
batchSentNoItemCatch(b, current, outcome) ==
    LET seen == [NoLast EXCEPT !.lookup = b.lookup, !.send = outcome] IN
    IF outcome = "ok"
    THEN IF b.i < Len(b.recipients.items)
         THEN [PushSent(b, seen) EXCEPT !.pc = "delay", !.waits = b.waits \cup {b.i}]
         ELSE RunLoop([PushSent(b, seen) EXCEPT !.i = b.i + 1], current)
    ELSE RespondError(b, 500)

\* server.js:540-563: sendMessage settled for item b.i
batchSent(b, current, outcome) ==
    LET seen == [NoLast EXCEPT !.lookup = b.lookup, !.send = outcome] IN
    IF outcome = "ok"
    THEN IF b.i < Len(b.recipients.items)
         THEN [PushSent(b, seen) EXCEPT !.pc = "delay", !.waits = b.waits \cup {b.i}]
         ELSE RunLoop([PushSent(b, seen) EXCEPT !.i = b.i + 1], current)
    ELSE RunLoop([PushFailed(b, b.targetNumber, SendError, seen) EXCEPT !.i = b.i + 1],
                 current)

BatchSendDone(outcome) ==
    /\ batch.pc = "sending"
    /\ outcome = "throw" \/ CanSucceed(batch.on)
    /\ batch' = batchSent(batch, client, outcome)
    /\ UNCHANGED <<client, clientReady, qrCodeData, lib, pendingQr, timers, req,
                   call, got, sessionDir>>

\* server.js:551-553: the setTimeout(resolve, delayMs) of the pause fires
BatchDelayDone ==
    /\ batch.pc = "delay"
    /\ batch' = RunLoop([batch EXCEPT !.i = batch.i + 1], client)
    /\ UNCHANGED <<client, clientReady, qrCodeData, lib, pendingQr, timers, req,
                   call, got, sessionDir>>

\* Bodies a caller may post.
SampleItems == {StrItem(<<"6", "2">>), StrItem(<<"x">>),
                ObjItem(Str(<<"6", "2">>), Str(<<"y", "o">>)),
                ObjItem(Undef, Undef), ObjItem(Str(<<"6", "2">>), Undef),
                NumItem, NullItem}
ItemLists == UNION {[1..n -> SampleItems] : n \in 0..MaxRecipients}
SampleRecipients == {NoRecipients, NotAnArray} \cup {Array(items) : items \in ItemLists}
SampleDelays == {NoDelay, Delay(0), Delay(50), Delay(100), Delay(5000), Delay(10000),
                 Delay(5000000)}

BatchRequest ==
    /\ batch.pc = "idle"
    /\ \E recipients \in SampleRecipients, message \in SampleMessages,
          delay \in SampleDelays : BatchArrive(recipients, message, delay)

\* A session restored from disk comes up without pairing, and may drop.
Connection ==
    \E c \in Clients :
        \/ OnAuthenticated(c)
        \/ OnReady(c)
        \/ OnDisconnected(c)

BatchNext ==
    \/ Connection
    \/ BatchRequest
    \/ \E outcome \in LookupOutcomes : BatchLookupDone(outcome)
    \/ \E outcome \in CallOutcomes : BatchSendDone(outcome)
    \/ BatchDelayDone

SpecBatch == Init /\ [][BatchNext]_vars

(***************************************************************************)
(* resolveChatId taken on its own: one call, on any input a caller can     *)
(* pass, with every way the lookup can settle.                             *)
(***************************************************************************)
\* server.js:55-65: the call from its entry to the await of getNumberId, or to
\* its return when it returns without a lookup
resolveChatIdCall(input) ==
    LET started == resolveChatIdStart(input) IN
    IF started.lookup
    THEN [IdleCall EXCEPT !.pc = "lookup", !.input = input,
                          !.number = started.target.normalizedNumber, !.lookups = 1]
    ELSE [IdleCall EXCEPT !.pc = "done", !.input = input, !.result = started.target]

ResolveChatId(input) ==
    /\ call.pc = "idle"
    /\ call' = resolveChatIdCall(input)
    /\ UNCHANGED <<client, clientReady, qrCodeData, lib, pendingQr, timers, req, batch,
                   got, sessionDir>>

\* server.js:67-86: getNumberId settled and the call returns
ResolveLookupDone(outcome) ==
    /\ call.pc = "lookup"
    /\ call' = [call EXCEPT !.pc = "done", !.outcome = outcome,
                            !.result = resolveChatIdFinish(call.number, outcome)]
    /\ UNCHANGED <<client, clientReady, qrCodeData, lib, pendingQr, timers, req, batch,
                   got, sessionDir>>

\* Inputs: values that are not strings, every text of up to MaxInputLen
\* characters, and each of these texts followed by '@c.us'.
MaxInputLen == 4
InputChars == {"6", "2", "+", " ", "@", "x"}
Texts == UNION {[1..n -> InputChars] : n \in 0..MaxInputLen}
SampleInputs == {Undef, Num} \cup {Str(t) : t \in Texts}
                    \cup {Str(t \o DirectSuffix) : t \in Texts}

ResolveRequest ==
    /\ call.pc = "idle"
    /\ \E input \in SampleInputs : ResolveChatId(input)

ResolveNext ==
    \/ ResolveRequest
    \/ \E outcome \in LookupOutcomes : ResolveLookupDone(outcome)

SpecResolve == Init /\ [][ResolveNext]_vars

(***************************************************************************)
(* GET /, GET /api/qrcode and GET /api/status                              *)
(***************************************************************************)
\* server.js:694-707
GetRoot ==
    /\ got' = [NoAnswer EXCEPT !.path = "/", !.status = 200, !.body = "index"]
    /\ UNCHANGED <<client, clientReady, qrCodeData, lib, pendingQr, timers, req, batch,
                   call, sessionDir>>

\* server.js:230-261: ready and data are clientReady and qrCodeData as the
\* handler reads them, json is whether the Accept header asks for JSON.
qrcodeAnswer(ready, data, json) ==
    LET answer == [NoAnswer EXCEPT !.path = "/api/qrcode"] IN
    IF ready THEN [answer EXCEPT !.status = 200, !.body = "connected"]
    ELSE IF data = NULL THEN [answer EXCEPT !.status = 404, !.body = "not_ready"]
    ELSE IF json THEN [answer EXCEPT !.status = 200, !.body = "ready", !.qrCode = data]
    ELSE [answer EXCEPT !.status = 200, !.body = "image", !.qrCode = data]

GetQrcode(json) ==
    /\ got' = qrcodeAnswer(clientReady, qrCodeData, json)
    /\ UNCHANGED <<client, clientReady, qrCodeData, lib, pendingQr, timers, req, batch,
                   call, sessionDir>>

\* server.js:287-296
statusAnswer(ready, data) ==
    [NoAnswer EXCEPT !.path = "/api/status", !.status = 200,
                     !.body = IF ready THEN "connected" ELSE "disconnected",
                     !.hasQrCode = (data # NULL)]

GetStatus ==
    /\ got' = statusAnswer(clientReady, qrCodeData)
    /\ UNCHANGED <<client, clientReady, qrCodeData, lib, pendingQr, timers, req, batch,
                   call, sessionDir>>

GetRequests ==
    \/ GetRoot
    \/ \E json \in BOOLEAN : GetQrcode(json)
    \/ GetStatus

(***************************************************************************)
(* The five handlers that do not reset the session, side by side on one    *)
(* client: the GET handlers, a single send and a batch of up to            *)
(* MaxFacadeItems recipients.                                              *)
(***************************************************************************)
MaxFacadeItems == 2
FacadeItems == {StrItem(<<"6", "2">>), ObjItem(Undef, Undef), NullItem}
FacadeLists == UNION {[1..n -> FacadeItems] : n \in 0..MaxFacadeItems}
FacadeRecipients == {NoRecipients} \cup {Array(items) : items \in FacadeLists}

FacadeBatchRequest ==
    /\ batch.pc = "idle"
    /\ \E recipients \in FacadeRecipients, message \in SampleMessages :
          BatchArrive(recipients, message, NoDelay)

FacadeNext ==
    \/ Lifecycle
    \/ GetRequests
    \/ SendRequests
    \/ FacadeBatchRequest
    \/ \E outcome \in LookupOutcomes : BatchLookupDone(outcome)
    \/ \E outcome \in CallOutcomes : BatchSendDone(outcome)
    \/ BatchDelayDone

SpecFacade == Init /\ [][FacadeNext]_vars

(***************************************************************************)
(* C1. The pairing artifact is present only in the awaiting_pairing phase  *)
(* (the current client emitted 'qr' and nothing since), and never while    *)
(* clientReady is true. The code breaks it: 'authenticated' leaves         *)
(* qrCodeData in place, and an encoding that settles after 'ready' stores  *)
(* the image while clientReady is true.                                    *)
(***************************************************************************)
C1_ArtifactOnlyWhileAwaitingPairing ==
    qrCodeData # NULL => (lib[client] = "qr" /\ ~clientReady)

(***************************************************************************)
(* C2. At most one underlying client connection is active at a time. The   *)
(* code breaks it: a clear-session whose destroy() throws, or two resets   *)
(* whose timers both fire, leave an earlier client connected when          *)
(* initializeWhatsApp creates the next one.                                *)
(***************************************************************************)
C2_AtMostOneActiveClient ==
    Cardinality({c \in Clients : lib[c] \in Connected}) <= 1

(***************************************************************************)
(* C9. A /api/send-message request that arrives while clientReady is false *)
(* is answered 400 and calls neither getNumberId nor sendMessage.          *)
(***************************************************************************)
C9_NotReadySendRejected ==
    \A r \in SendSlots :
        (req[r].kind = "send" /\ ~req[r].arrivedReady) =>
            /\ req[r].pc = "done"
            /\ req[r].status = 400
            /\ req[r].lookups = 0
            /\ req[r].sends = 0

\* A request was rejected as not ready, and the session became ready after it.
C9_Witness ==
    \E r \in SendSlots :
        /\ req[r].kind = "send" /\ ~req[r].arrivedReady
        /\ req[r].status = 400
        /\ clientReady

(***************************************************************************)
(* The batch claims speak of a request that passes the preconditions: it   *)
(* arrived while ready, recipients is a non-empty array, and a list made   *)
(* of strings only comes with a shared message.                            *)
(***************************************************************************)
Items == batch.recipients.items
AllStrings == \A k \in 1..Len(Items) : Items[k].t = "string"
PassesPreconditions ==
    /\ batch.arrivedReady
    /\ batch.recipients.t = "array"
    /\ Items # <<>>
    /\ ~(AllStrings /\ ~Truthy(batch.message))
Answered == batch.pc = "done"

\* An entry that is neither a string nor an object with number and message.
Malformed(entry) ==
    /\ entry.t # "string"
    /\ ~(entry.t = "object" /\ Truthy(entry.number) /\ Truthy(entry.message))

(***************************************************************************)
(* C3. Every batch that passes the preconditions is answered with          *)
(* total = len(results) = number of recipients and sent + failed = total.  *)
(* The code breaks it through the bug of C4: a null entry makes the answer *)
(* a 500 without totals or results.                                        *)
(***************************************************************************)
C3_TotalsMatchResults ==
    (Answered /\ PassesPreconditions) =>
        /\ batch.status = 200
        /\ batch.total = Len(batch.results)
        /\ batch.total = Len(Items)
        /\ batch.sent + batch.failed = batch.total

(***************************************************************************)
(* C4. Every malformed entry ({}, null, a number, an object missing a      *)
(* field) becomes one failed result with the invalid-format error and the  *)
(* batch goes on; none turns the whole response into an error. The code    *)
(* breaks it for null: typeof null is 'object', recipient.number throws,   *)
(* and the outer catch answers 500.                                        *)
(***************************************************************************)
C4_MalformedEntryFailsAlone ==
    (Answered /\ PassesPreconditions) =>
        /\ batch.status = 200
        /\ \A k \in 1..Len(Items) :
              Malformed(Items[k]) =>
                  /\ k <= Len(batch.results)
                  /\ ~batch.results[k].success
                  /\ batch.results[k].error = InvalidFormat

(***************************************************************************)
(* C5, as claimed. When resolving or sending an item fails (a resolution   *)
(* error, or the lookup or the send call throws), the item's result is a   *)
(* failed one. The code does not treat a lookup that throws as a failure.  *)
(***************************************************************************)
FailedToResolve(l) == l.resolved # NoError
C5_EveryThrowIsAFailedResult ==
    LET l == batch.last IN
    (l.item > 0 /\ (FailedToResolve(l) \/ l.lookup = "throw" \/ l.send = "throw")) =>
        ~batch.results[l.item].success

(***************************************************************************)
(* C5, amended. When resolving an item returns an error or its send call   *)
(* throws, a failed result with that error text is appended for the item   *)
(* and the loop goes on with the next item; a lookup that throws is not a  *)
(* failure (the send is attempted and its outcome is the item's result).   *)
(* The batch is cut short only at a null entry, never by a failed item.    *)
(***************************************************************************)
C5_FailedItemDoesNotStopTheBatch ==
    LET l == batch.last IN
    /\ (l.item > 0 /\ (FailedToResolve(l) \/ l.send = "throw")) =>
          /\ ~batch.results[l.item].success
          /\ batch.results[l.item].error =
                 (IF FailedToResolve(l) THEN l.resolved ELSE SendError)
          /\ batch.i > l.item
    /\ (l.item > 0 /\ l.send = "ok") => batch.results[l.item].success
    /\ (Answered /\ PassesPreconditions /\ batch.status # 200) =>
          /\ batch.status = 500
          /\ batch.i <= Len(Items)
          /\ Items[batch.i].t = "null"

\* The first item failed to send, the second one was sent.
C5_Witness ==
    /\ Answered /\ batch.status = 200
    /\ Len(batch.results) >= 2
    /\ batch.results[1].error = SendError
    /\ batch.results[2].success

(***************************************************************************)
(* C6. Items are processed one after the other in input order: results[k]  *)
(* is the outcome of items[k], the call for item i is made only when the   *)
(* results of items 1..i-1 are in, and every sendMessage call but the one  *)
(* in flight has its result in the list.                                   *)
(***************************************************************************)
SendResults == {k \in 1..Len(batch.results) :
                   batch.results[k].success \/ batch.results[k].error = SendError}
C6_SequentialInInputOrder ==
    /\ \A k \in 1..Len(batch.results) : batch.results[k].item = k
    /\ batch.pc \in {"lookup", "sending"} => Len(batch.results) = batch.i - 1
    /\ batch.pc = "delay" => Len(batch.results) = batch.i
    /\ batch.sends = Cardinality(SendResults) + (IF batch.pc = "sending" THEN 1 ELSE 0)

\* Three items were sent, the third call is in flight after the first two
\* results.
C6_Witness ==
    /\ batch.pc = "sending" /\ batch.i = 3
    /\ batch.sends = 3
    /\ batch.results[1].success /\ ~batch.results[2].success

(***************************************************************************)
(* C7, as claimed. The dispatcher pauses after every item but the last,    *)
(* whatever the item's outcome.                                            *)
(***************************************************************************)
C7_PauseAfterEveryItemButLast ==
    (Answered /\ batch.status = 200) => batch.waits = 1..(Len(Items) - 1)

(***************************************************************************)
(* C7, amended. The dispatcher pauses for delayMs after an item exactly    *)
(* when the item was sent successfully and is not the last; after an item  *)
(* with an invalid format, a failed resolution or a failed send the next   *)
(* item starts without a pause.                                            *)
(***************************************************************************)
C7_PauseOnlyAfterSentItem ==
    /\ batch.waits = {k \in 1..Len(batch.results) :
                         batch.results[k].success /\ k < Len(Items)}
    /\ batch.pc = "delay" => (batch.i \in batch.waits /\ batch.delayMs >= 100)

\* Item 1 was sent and paused after, item 2 failed to send and item 3 went
\* out without a pause in between.
C7_Witness ==
    /\ Answered /\ batch.status = 200 /\ Len(Items) = 3
    /\ batch.results[1].success
    /\ batch.results[2].error = SendError
    /\ batch.results[3].success
    /\ batch.waits = {1}

(***************************************************************************)
(* C8. The delay used is the requested integer clamped to [100, 10000].    *)
(* The code breaks it for 0: `delay || 1000` turns it into 1000.           *)
(***************************************************************************)
C8_DelayIsRequestedClamped ==
    (PassesPreconditions /\ batch.pc # "idle" /\ batch.delay.t = "number") =>
        batch.delayMs = Max(100, Min(batch.delay.n, 10000))

(***************************************************************************)
(* C10. A batch that fails a precondition is answered with one 400: no     *)
(* lookup, no send, no result.                                             *)
(***************************************************************************)
C10_RejectedAsAWhole ==
    (batch.pc # "idle" /\ ~PassesPreconditions) =>
        /\ Answered
        /\ batch.status = 400
        /\ batch.results = <<>>
        /\ batch.lookups = 0 /\ batch.sends = 0
        /\ batch.total = 0 /\ batch.sent = 0 /\ batch.failed = 0

\* A list of strings without a shared message was rejected while ready.
C10_Witness ==
    /\ Answered /\ batch.status = 400
    /\ batch.arrivedReady
    /\ Len(Items) = MaxRecipients /\ AllStrings
    /\ ~Truthy(batch.message)

(***************************************************************************)
(* The resolver claims speak of the call that SpecResolve makes.           *)
(***************************************************************************)
Called == call.pc # "idle"
Returned == call.pc = "done"
HasAt(v) == v.t = "string" /\ Includes(v.s, "@")
InvalidNumberFormat == <<"Format nomor tidak valid">>

(***************************************************************************)
(* C11, as claimed. Resolving an input that contains '@' never calls       *)
(* getNumberId and returns exactly the input string as the chat id, inputs *)
(* ending in '@c.us' included. The code looks up the digits of an input    *)
(* that ends in '@c.us', and it returns the trimmed input.                 *)
(***************************************************************************)
C11_AtInputNeverLookedUp ==
    (Called /\ HasAt(call.input)) =>
        /\ call.lookups = 0
        /\ Returned
        /\ call.result.error = NoError
        /\ call.result.chatId = call.input.s

(***************************************************************************)
(* C11, amended. An input with an '@' whose trimmed text does not end in   *)
(* '@c.us' is returned, trimmed, as the chat id without a call of          *)
(* getNumberId. An input that ends in '@c.us' is validated as a direct     *)
(* user: its digits are passed to getNumberId, or, when it has no digit,   *)
(* it is rejected as an invalid number without a lookup.                   *)
(***************************************************************************)
C11_OnlyDirectUserIdsAreLookedUp ==
    (Called /\ HasAt(call.input)) =>
        LET raw == Trim(call.input.s)
            digits == FilterDigits(raw)
        IN  IF ~EndsWith(raw, DirectSuffix)
            THEN /\ call.lookups = 0
                 /\ Returned
                 /\ call.result.error = NoError
                 /\ call.result.chatId = raw
            ELSE IF digits = <<>>
            THEN /\ call.lookups = 0
                 /\ Returned
                 /\ call.result.error = InvalidNumberFormat
                 /\ call.result.chatId = <<>>
            ELSE /\ call.lookups = 1
                 /\ call.number = digits

\* '+6@c.us' was looked up as 6 and resolved to 6@c.us.
C11_Witness ==
    /\ Returned
    /\ call.input = Str(<<"+", "6">> \o DirectSuffix)
    /\ call.outcome = "id"
    /\ call.result.chatId = <<"6">> \o DirectSuffix

(***************************************************************************)
(* C12. When getNumberId throws, resolution fails open: the target is      *)
(* normalizedNumber + '@c.us' with no error, and sendMessage is called     *)
(* with it, in a single send and in a batch alike.                         *)
(***************************************************************************)
DigitsOnly(chars) == chars # <<>> /\ \A k \in 1..Len(chars) : chars[k] \in Digits
FailOpenId(target) ==
    /\ target.error = NoError
    /\ DigitsOnly(target.normalizedNumber)
    /\ target.chatId = target.normalizedNumber \o DirectSuffix
C12_LookupFailureFailsOpen ==
    /\ \A r \in SendSlots :
          (req[r].kind = "send" /\ req[r].lookup = "throw") =>
              /\ req[r].sends = 1
              /\ req[r].pc \in {"sending", "done"}
              /\ req[r].pc = "sending" => FailOpenId(req[r].target)
              /\ req[r].pc = "done" => req[r].status \in {200, 500}
    /\ (batch.pc = "sending" /\ batch.lookup = "throw") =>
          /\ FailOpenId(batch.target)
          /\ batch.target.normalizedNumber = FilterDigits(batch.targetNumber.s)
    /\ (batch.last.item > 0 /\ batch.last.lookup = "throw") =>
          /\ batch.last.send \in CallOutcomes
          /\ batch.last.resolved = NoError
          /\ batch.results[batch.last.item].success = (batch.last.send = "ok")

\* A single send and a batch item both went out after their lookup threw.
C12_Witness ==
    /\ \E r \in SendSlots : req[r].lookup = "throw" /\ req[r].status = 200
    /\ batch.last.item > 0 /\ batch.last.lookup = "throw" /\ batch.last.send = "ok"

(***************************************************************************)
(* C13. When getNumberId returns nothing, resolution returns the 'not      *)
(* registered' error and no chat id, and sendMessage is not called for the *)
(* target: a single send is answered 400, a batch item gets a failed       *)
(* result with that error.                                                 *)
(***************************************************************************)
C13_UnregisteredNumberIsNotSent ==
    /\ \A r \in SendSlots :
          (req[r].kind = "send" /\ req[r].lookup = "none") =>
              /\ req[r].pc = "done"
              /\ req[r].status = 400
              /\ req[r].sends = 0
    /\ batch.lookup # "none"
    /\ (batch.last.item > 0 /\ batch.last.lookup = "none") =>
          LET result == batch.results[batch.last.item] IN
          /\ batch.last.send = "-"
          /\ ~result.success
          /\ result.messageId = "null"
          /\ result.number.t = "string"
          /\ result.error = NotRegistered(FilterDigits(result.number.s))
          /\ batch.last.resolved = result.error

\* A single send was refused and the first batch item failed as not
\* registered, while the second item was sent.
C13_Witness ==
    /\ \E r \in SendSlots : req[r].lookup = "none" /\ req[r].status = 400
    /\ Len(batch.results) = 2
    /\ batch.results[1].error = NotRegistered(<<"6", "2">>)
    /\ batch.results[2].success

C15_LogoutWithoutActiveClientIsNoOp ==
    \A r \in ResetSlots :
        (req[r].kind = "logout" /\ req[r].pc \in {"logout", "destroy"}) =>
            lib[req[r].on] # "destroyed"

(***************************************************************************)
(* C16. Every logout or clear-session request re-arms the session,         *)
(* whatever its outcome: the step that answers it schedules                *)
(* initializeWhatsApp, which runs only at start-up and from these timers.  *)
(* The code breaks it: a logout whose logout() or destroy() throws is      *)
(* answered 500 from the catch and schedules nothing.                      *)
(***************************************************************************)
C16_EveryResetReArms ==
    [][\A r \in ResetSlots :
          (/\ req[r].kind \in {"logout", "clear"}
           /\ req[r].pc # "done" /\ req'[r].pc = "done") =>
              timers' = timers + 1]_vars

(***************************************************************************)
(* resolveChatId as a function of its input and of how getNumberId         *)
(* settles, and the argument it passes to getNumberId (<<>> when it makes  *)
(* no lookup).                                                             *)
(***************************************************************************)
Resolve(input, outcome) ==
    LET started == resolveChatIdStart(input) IN
    IF started.lookup
    THEN resolveChatIdFinish(started.target.normalizedNumber, outcome)
    ELSE started.target
LookupArgument(input) ==
    LET started == resolveChatIdStart(input) IN
    IF started.lookup THEN started.target.normalizedNumber ELSE <<>>

(***************************************************************************)
(* C17. For an input without '@' that has a digit, the resolver passes the *)
(* input's digits, and nothing else, to getNumberId; and resolving those   *)
(* digits again passes the same argument and returns the same result.      *)
(***************************************************************************)
PlainNumber(v) ==
    /\ v.t = "string"
    /\ ~Includes(v.s, "@")
    /\ \E k \in 1..Len(v.s) : v.s[k] \in Digits
C17_NormalizationIsIdempotent ==
    (Called /\ PlainNumber(call.input)) =>
        LET digits == FilterDigits(call.input.s) IN
        /\ DigitsOnly(digits)
        /\ call.lookups = 1
        /\ call.number = digits
        /\ LookupArgument(Str(digits)) = call.number
        /\ Returned =>
              /\ call.result = Resolve(Str(digits), call.outcome)
              /\ call.result.error = NoError => call.result.normalizedNumber = digits

\* '6 2' was looked up as 62 and resolved to 62@c.us.
C17_Witness ==
    /\ Returned
    /\ call.input = Str(<<"6", " ", "2">>)
    /\ call.number = <<"6", "2">>
    /\ call.outcome = "id"
    /\ call.result.chatId = <<"6", "2">> \o DirectSuffix

(***************************************************************************)
(* C18. Whatever the input and however the lookup settles, what            *)
(* resolveChatId returns has a chat id or an error, never both and never   *)
(* neither; an input that is not a string, or is empty or blank, gets an   *)
(* error, without a lookup.                                                *)
(***************************************************************************)
HasId(target) == target.chatId # <<>>
HasError(target) == target.error # NoError
Blank(v) == v.t # "string" \/ Trim(v.s) = <<>>
C18_ExactlyOneOfIdOrError ==
    /\ Returned => (HasId(call.result) # HasError(call.result))
    /\ (Called /\ Blank(call.input)) =>
          /\ Returned
          /\ call.lookups = 0
          /\ HasError(call.result)
          /\ ~HasId(call.result)

\* A blank input was rejected as empty.
C18_Witness ==
    /\ Returned
    /\ call.input = Str(<<" ", " ">>)
    /\ call.result.error = <<"Nomor tujuan tidak boleh kosong">>
    /\ call.result.chatId = <<>>

(***************************************************************************)
(* C19. clientReady and qrCodeData are written only by the lifecycle       *)
(* handlers (and by logout and clear-session): a step of GET /,            *)
(* GET /api/qrcode, GET /api/status, /api/send-message or                  *)
(* /api/send-batch-message, that is any step that changes the GET answer,  *)
(* the single-send request or the batch, leaves both as they were, on the  *)
(* 400 and 500 paths too.                                                  *)
(***************************************************************************)
C19_HandlersLeaveSessionStateAlone ==
    [][(got' # got \/ req' # req \/ batch' # batch) =>
          UNCHANGED <<clientReady, qrCodeData>>]_vars

\* A single send and a batch both ended in a 500, a GET /api/qrcode was
\* answered, and the session is still ready.
C19_Witness ==
    /\ \E r \in SendSlots : req[r].pc = "done" /\ req[r].status = 500
    /\ batch.pc = "done" /\ batch.status = 500
    /\ got.path = "/api/qrcode" /\ got.body = "connected"
    /\ clientReady /\ lib[client] = "ready"

(***************************************************************************)
(* C20. When qrcode.toDataURL fails, the 'qr' handler catches the error    *)
(* and leaves no artifact: after that step qrCodeData is null, so          *)
(* GET /api/qrcode carries no image, stale or partial, and answers 404     *)
(* not_ready while the session is not ready. The client is untouched and   *)
(* no encoding is left pending for it, so a client that was showing a code *)
(* can emit 'qr' again, be authenticated and become ready.                 *)
(***************************************************************************)
C20_FailedEncodingLeavesNoArtifact ==
    [][\A c \in Clients :
          QrEncoded(c, FALSE) =>
              /\ qrCodeData' = NULL
              /\ \A json \in BOOLEAN :
                    LET answer == qrcodeAnswer(clientReady', qrCodeData', json) IN
                    /\ answer.qrCode = NULL
                    /\ ~clientReady' => (answer.status = 404 /\ answer.body = "not_ready")
              /\ lib' = lib /\ clientReady' = clientReady /\ client' = client
              /\ c \notin pendingQr']_vars

\* The encoding of the client's code failed: the client shows a code, no
\* encoding is pending, there is no artifact, and GET /api/qrcode was
\* answered 404.
C20_Witness ==
    /\ lib[client] = "qr" /\ pendingQr = {}
    /\ qrCodeData = NULL /\ ~clientReady
    /\ got.path = "/api/qrcode" /\ got.status = 404 /\ got.body = "not_ready"

(***************************************************************************)
(* C21. client.sendMessage is called only while the session is ready, and  *)
(* on the client that is ready: every step that issues a send, of a single *)
(* send or of a batch, is taken with clientReady true and the called       *)
(* client in the ready state. The code breaks it: clientReady is read once *)
(* at the entry of the handler, so a 'disconnected' event during the       *)
(* lookup, or between two batch items, is followed by a send all the same. *)
(***************************************************************************)
C21_SendsOnlyWhileReady ==
    [][/\ \A r \in SendSlots :
             (req[r].pc # "sending" /\ req'[r].pc = "sending") =>
                 (clientReady /\ lib[req'[r].on] = "ready")
       /\ batch'.sends = batch.sends + 1 =>
             (clientReady /\ lib[batch'.on] = "ready")]_vars

(***************************************************************************)
(* C22. clientReady and qrCodeData describe the current client: an event   *)
(* of a client that is no longer `client`, or the late end of its QR       *)
(* encoding, changes neither. The code breaks it: the handlers of a        *)
(* replaced client stay registered and assign the module's variables       *)
(* without looking at which client they belong to.                         *)
(***************************************************************************)
C22_OnlyCurrentClientChangesSessionState ==
    [][\A c \in Clients :
          (/\ c # client
           /\ \/ OnReady(c)
              \/ OnAuthFailure(c)
              \/ OnDisconnected(c)
              \/ \E ok \in BOOLEAN : QrEncoded(c, ok)) =>
              UNCHANGED <<clientReady, qrCodeData>>]_vars

(***************************************************************************)
(* C23. Every send of a batch carries a message: while a sendMessage call  *)
(* of the batch is in flight, its message argument is a non-empty value.   *)
(* The code breaks it: a list that mixes strings and objects passes the    *)
(* isStringArray check without a shared message, and a string entry is     *)
(* then sent with `message`, which is undefined.                           *)
(***************************************************************************)
C23_BatchSendsCarryAMessage ==
    batch.pc = "sending" => Truthy(batch.targetMessage)

====
